---- MODULE Spec2Model ----
(***************************************************************************)
(* A model of convert.py: a two-pass batch transcoder.  Pass 1 probes one  *)
(* representative file per series key and resolves the audio and subtitle  *)
(* track of the series (prompting the operator when there are several      *)
(* candidates); Pass 2 invokes the encoder once per file.                   *)
(*                                                                         *)
(* File names are sequences of one-character strings.  Python values whose *)
(* dynamic type matters (the arguments of get_audio_flags) are records     *)
(* [t, s, i] tagged with their type.  Command-line tokens are records      *)
(* [s, f, n, tail]: a format template, a file-name and an integer          *)
(* argument, and a literal tail appended to the formatted text.            *)
(***************************************************************************)
EXTENDS Integers, Sequences, FiniteSets, TLC

(* ------------------------------ bounds --------------------------------- *)

\* Largest number of entries of the working directory.
MaxFiles == 2

\* Largest number of streams the prober reports for one file.
MaxStreams == 2

(* --------------------------- file names -------------------------------- *)

\* The characters used in file names, in code-point order.
Alphabet == <<" ", "-", ".", "1", "2", "4", "T", "[", "]", "a", "g", "k", "m", "n", "p", "t", "v", "x">>

Ord(c) == CHOOSE k \in 1..Len(Alphabet) : Alphabet[k] = c

Digits == {"1", "2", "4"}

F_T1_mkv == <<"[", "g", "]", " ", "T", " ", "-", " ", "1", " ", "a", ".", "m", "k", "v">>
F_T2_mkv == <<"[", "g", "]", " ", "T", " ", "-", " ", "2", " ", "a", ".", "m", "k", "v">>
F_T2_mp4 == <<"[", "g", "]", " ", "T", " ", "-", " ", "2", " ", "a", ".", "m", "p", "4">>
F_m_mkv == <<"m", ".", "m", "k", "v">>
F_n_txt == <<"n", ".", "t", "x", "t">>

\* The names a working directory may hold.
FileNames == {F_T1_mkv, F_T2_mkv, F_T2_mp4, F_m_mkv, F_n_txt}

Directories == {d \in SUBSET FileNames : Cardinality(d) <= MaxFiles}

\* Python's str comparison: lexicographic by code point, a proper prefix first.
RECURSIVE LexLess(_, _)
LexLess(a, b) ==
    IF Len(a) = 0 THEN Len(b) > 0
    ELSE IF Len(b) = 0 THEN FALSE
    ELSE IF a[1] # b[1] THEN Ord(a[1]) < Ord(b[1])
    ELSE LexLess(Tail(a), Tail(b))

\* sorted(...) of a collection of distinct names.
RECURSIVE Sorted(_)
Sorted(S) ==
    IF S = {} THEN <<>>
    ELSE LET m == CHOOSE x \in S : \A y \in S \ {x} : LexLess(x, y)
         IN  <<m>> \o Sorted(S \ {m})

EndsWith(f, suffix) ==
    /\ Len(f) >= Len(suffix)
    /\ SubSeq(f, Len(f) - Len(suffix) + 1, Len(f)) = suffix

\* glob("*" + ext): the names of the directory with that suffix.
Glob(d, ext) == {f \in d : EndsWith(f, ext)}

\* file_list = sorted(glob("*.mkv") + glob("*.mp4"))
DiscoverFiles(d) == Sorted(Glob(d, <<".", "m", "k", "v">>) \cup Glob(d, <<".", "m", "p", "4">>))

\* re.match(r"\[(.+)\] (.+) - (\d+) .*", file): the ends of group 1 for
\* which the rest of the pattern can match, and for such an end the ends of
\* group 2 for which it can.
DigitsThenSpace(f, p) ==
    \E q \in p..Len(f) :
        /\ \A r \in p..q : f[r] \in Digits
        /\ q + 1 <= Len(f)
        /\ f[q + 1] = " "

Group2Ends(f, i) ==
    {j \in (i + 3)..Len(f) :
        /\ j + 3 <= Len(f)
        /\ f[j + 1] = " " /\ f[j + 2] = "-" /\ f[j + 3] = " "
        /\ DigitsThenSpace(f, j + 4)}

Group1Ends(f) ==
    {i \in 2..Len(f) :
        /\ f[1] = "["
        /\ i + 2 <= Len(f)
        /\ f[i + 1] = "]" /\ f[i + 2] = " "
        /\ Group2Ends(f, i) # {}}

SetMax(S) == CHOOSE x \in S : \A y \in S : y <= x

SetMin(S) == CHOOSE x \in S : \A y \in S : x <= y

get_key_lazy(file) ==
    IF Group1Ends(file) = {} THEN file
    ELSE LET i == SetMin(Group1Ends(file))
             j == SetMin(Group2Ends(file, i))
         IN  SubSeq(file, i + 3, j)

\* get_key: group 2 of the greedy match, or the file name itself.
get_key(file) ==
    IF Group1Ends(file) = {} THEN file
    ELSE LET i == SetMax(Group1Ends(file))
             j == SetMax(Group2Ends(file, i))
         IN  SubSeq(file, i + 3, j)

\* get_key is a pure function of the name: its values on the names of the
\* working directory, computed once.
KeyTable == [f \in FileNames |-> get_key(f)]
KeyOf(file) == KeyTable[file]

\* os.path.splitext(file)[0]: the name up to its last dot, unless that dot
\* only follows leading dots.
splitext_root(file) ==
    LET dots == {k \in 1..Len(file) : file[k] = "."}
    IN  IF dots = {} THEN file
        ELSE LET d == SetMax(dots)
             IN  IF \E k \in 1..(d - 1) : file[k] # "." THEN SubSeq(file, 1, d - 1)
                 ELSE file

(* ----------------------- Python values and tokens ---------------------- *)

PyStr(x) == [t |-> "str", s |-> x, i |-> 0]
PyInt(x) == [t |-> "int", s |-> "", i |-> x]

NoFile == <<>>

\* A literal command-line token, and a token made by str.format.
Tok(x) == [s |-> x, f |-> NoFile, n |-> 0, tail |-> ""]
Fmt(template, file, num) == [s |-> template, f |-> file, n |-> num, tail |-> ""]

(* --------------------------- flag builders ----------------------------- *)

\* get_audio_flags(codec, channels, index); codec and channels are Python
\* values, compared with the str literals "aac", "2" and "none".
get_audio_flags(codec, channels, index) ==
    IF codec = PyStr("aac") /\ channels = PyStr("2")
    THEN <<Tok("-c:a"), Tok("copy"),
           Tok("-map"), Fmt("0:a:{}", NoFile, index)>>
    ELSE IF codec # PyStr("none")
    THEN <<Tok("-c:a"), Tok("aac"),
           Tok("-b:a"), Tok("192k"),
           Tok("-ac"), Tok("2"),
           Tok("-map"), Fmt("0:a:{}", NoFile, index)>>
    ELSE <<>>

PictureSubtitleCodecs == {"dvd_subtitle", "hdmv_pgs_subtitle"}

ScaleStage == "[burned]scale=-16:min(720\\,ih)[v]"

subfilter_no_path(codec, index, subfile) ==
    IF codec \in {"dvd_subtitle", "hdmv_pgs_subtitle"}
    THEN Fmt("[0:v][0:s:{}]overlay[burned];", NoFile, index)
    ELSE IF codec # "none"
    THEN Fmt("[0:v]subtitles='{}':si={}[burned];", NoFile, index)
    ELSE Fmt("[0:v]null[burned];", NoFile, 0)

subfilter_text_only(codec, index, subfile) ==
    IF codec # "none"
    THEN Fmt("[0:v]subtitles='{}':si={}[burned];", subfile, index)
    ELSE Fmt("[0:v]null[burned];", NoFile, 0)

\* The first stage of the filter graph: its template and format arguments.
subfilter(codec, index, subfile) ==
    IF codec \in PictureSubtitleCodecs
    THEN Fmt("[0:v][0:s:{}]overlay[burned];", NoFile, index)
    ELSE IF codec # "none"
    THEN Fmt("[0:v]subtitles='{}':si={}[burned];", subfile, index)
    ELSE Fmt("[0:v]null[burned];", NoFile, 0)

\* get_filter_flags(codec, index, subfile); the graph token keeps the first
\* stage in s, f, n and the appended scale stage in tail.
get_filter_flags(codec, index, subfile) ==
    LET sf == subfilter(codec, index, subfile)
    IN  <<Tok("-filter_complex"),
          [s |-> sf.s, f |-> sf.f, n |-> sf.n, tail |-> ScaleStage],
          Tok("-map"), Tok("[v]")>>

video_flags ==
    <<Tok("-c:v"), Tok("libx264"),
      Tok("-profile:v"), Tok("main"),
      Tok("-preset:v"), Tok("veryslow"),
      Tok("-crf"), Tok("18"),
      Tok("-tune"), Tok("animation"),
      Tok("-bf"), Tok("16"),
      Tok("-aq-mode"), Tok("2"),
      Tok("-pix_fmt"), Tok("yuv420p")>>

OutputPath(file) == Fmt("hardsubbed/{}.mp4", splitext_root(file), 0)

\* The argument list handed to run() in Pass 2 for one file.  The call
\* passes audio_channels first and audio_codec second.
EncodeArgs(file, track_info) ==
    LET audio_flags == get_audio_flags(PyInt(track_info.audio_channels),
                                       PyStr(track_info.audio_codec),
                                       track_info.audio_index)
        filter_flags == get_filter_flags(track_info.subtitle_codec,
                                         track_info.subtitle_index, file)
    IN  <<Tok("ffmpeg"), Tok("-hide_banner"),
          Tok("-loglevel"), Tok("warning"),
          Tok("-stats"),
          Tok("-i"), Fmt("{}", file, 0)>>
        \o video_flags
        \o audio_flags
        \o filter_flags
        \o <<OutputPath(file)>>

(* ------------------------- prober and operator ------------------------- *)

\* Stream descriptors the prober may report.  has_tags says whether the
\* stream object has a "tags" member at all; tags are the keys it holds.
Stream(type, name, ch, has, tg) ==
    [codec_type |-> type, codec_name |-> name, channels |-> ch, has_tags |-> has, tags |-> tg]

StreamCatalogue ==
    {Stream("video", "h264", 0, FALSE, {}),
     Stream("audio", "aac", 2, TRUE, {"title", "language"}),
     Stream("audio", "flac", 6, TRUE, {"language"}),
     Stream("subtitle", "subrip", 0, FALSE, {}),
     Stream("subtitle", "hdmv_pgs_subtitle", 0, TRUE, {"title", "language"})}

StreamLists == UNION {[1..n -> StreamCatalogue] : n \in 0..MaxStreams}

\* What ffprobe leaves on stdout: text json.loads rejects, a JSON object
\* without "streams", or an object with a streams list.
ProbeStdouts ==
    {[kind |-> "garbage", streams |-> <<>>], [kind |-> "nostreams", streams |-> <<>>]}
    \cup {[kind |-> "streams", streams |-> s] : s \in StreamLists}

ReturnCodes == {0, 1}

\* What the operator types at a prompt: an integer, or text int() rejects.
Inputs ==
    {[is_int |-> TRUE, v |-> c] : c \in {-(MaxStreams + 1), -1} \cup 0..MaxStreams}
    \cup {[is_int |-> FALSE, v |-> 0]}

NoInput == [is_int |-> FALSE, v |-> 0]

\* [stream for stream in streams if stream["codec_type"] == kind]
Candidates(streams, kind) == SelectSeq(streams, LAMBDA st : st.codec_type = kind)

\* Python list indexing: seq[i] is defined for -len <= i < len, negative
\* indices counting from the end.
PyIndexOK(seq, i) == -Len(seq) <= i /\ i < Len(seq)
PyItem(seq, i) == IF i >= 0 THEN seq[i + 1] ELSE seq[Len(seq) + i + 1]

\* print_stream_info raises KeyError when a stream has no "tags" member.
PrintStreamInfoFails(streams) == \E k \in 1..Len(streams) : ~streams[k].has_tags

NeedsPrompt(streams) == Len(streams) > 1

\* The index assigned for one kind of track: the operator's integer, 0 for a
\* single candidate, -1 for none.
ChosenIndex_zero(streams, inp) ==
    IF Len(streams) > 1 THEN inp.v ELSE 0

ChosenIndex_first(streams, inp) ==
    IF Len(streams) >= 1 THEN 0 ELSE -1

ChosenIndex(streams, inp) ==
    IF Len(streams) > 1 THEN inp.v
    ELSE IF Len(streams) = 1 THEN 0
    ELSE -1

\* The three-way rule for one kind of track.  err names the exception that
\* ends the run, if any; prompted says whether input() was called.
ResolveTrack(streams, inp) ==
    LET idx == ChosenIndex(streams, inp)
    IN  IF NeedsPrompt(streams)
        THEN IF PrintStreamInfoFails(streams)
             THEN [err |-> "KeyError", prompted |-> FALSE, assigned |-> FALSE,
                   index |-> 0, codec |-> "", channels |-> 0]
             ELSE IF ~inp.is_int
             THEN [err |-> "ValueError", prompted |-> TRUE, assigned |-> FALSE,
                   index |-> 0, codec |-> "", channels |-> 0]
             ELSE IF ~PyIndexOK(streams, idx)
             THEN [err |-> "IndexError", prompted |-> TRUE, assigned |-> TRUE,
                   index |-> idx, codec |-> "", channels |-> 0]
             ELSE [err |-> "", prompted |-> TRUE, assigned |-> TRUE,
                   index |-> idx,
                   codec |-> PyItem(streams, idx).codec_name,
                   channels |-> PyItem(streams, idx).channels]
        ELSE IF Len(streams) = 1
        THEN [err |-> "", prompted |-> FALSE, assigned |-> TRUE,
              index |-> idx,
              codec |-> PyItem(streams, idx).codec_name,
              channels |-> PyItem(streams, idx).channels]
        ELSE [err |-> "", prompted |-> FALSE, assigned |-> TRUE,
              index |-> idx, codec |-> "none", channels |-> -1]

(* ------------------------------- state --------------------------------- *)

VARIABLES
    pc,              \* where main() stands: init, probing, audio, subtitle,
                     \* encoding, done, exited (sys.exit), crashed (uncaught exception)
    directory,       \* the names in the working directory
    hardsubbed,      \* whether the output directory exists
    file_list,       \* the sorted list of input files
    chosen_tracks,   \* series key -> track selection
    idx,             \* position of the running for loop in file_list (from 1)
    returncode,      \* results.returncode of the probe of this iteration
    stream_data,     \* stream_data["streams"] of this iteration
    audio_stream,    \* locals of the Pass 1 iteration
    audio_channels,
    audio_codec,
    subtitle_stream,
    error,           \* the exception that ended the run, "" if none
    exit_code,       \* the process's exit status, -1 while it runs
    probes,          \* history: the files handed to ffprobe, in order
    prompts,         \* history: the input() calls, in order
    encodes,         \* history: the ffmpeg invocations, in order
    call             \* a call of a pure function being examined on its own

locals == <<returncode, stream_data, audio_stream, audio_channels, audio_codec, subtitle_stream>>
history == <<probes, prompts, encodes>>
vars == <<pc, directory, hardsubbed, file_list, chosen_tracks, idx, locals,
          error, exit_code, history, call>>

EmptyDict == [k \in {} |-> 0]

NoCall == [pc |-> "none"]

\* Locals of an iteration that has not assigned them yet.
Unbound ==
    /\ returncode = 0
    /\ stream_data = <<>>
    /\ audio_stream = 0
    /\ audio_channels = 0
    /\ audio_codec = ""
    /\ subtitle_stream = 0

\* The locals are dead once the iteration has stored its selection.
UnboundNext ==
    /\ returncode' = 0
    /\ stream_data' = <<>>
    /\ audio_stream' = 0
    /\ audio_channels' = 0
    /\ audio_codec' = ""
    /\ subtitle_stream' = 0

audio_streams == Candidates(stream_data, "audio")
subtitle_streams == Candidates(stream_data, "subtitle")

Init ==
    /\ pc = "init"
    /\ directory \in Directories
    /\ hardsubbed \in BOOLEAN
    /\ file_list = <<>>
    /\ chosen_tracks = EmptyDict
    /\ idx = 1
    /\ Unbound
    /\ error = ""
    /\ exit_code = -1
    /\ probes = <<>>
    /\ prompts = <<>>
    /\ encodes = <<>>
    /\ call = NoCall

\* An uncaught exception: the traceback is printed and the process exits 1.
Raise(name) ==
    /\ pc' = "crashed"
    /\ error' = name
    /\ exit_code' = 1

(* ------------------------------- start ---------------------------------- *)

\* The output directory exists or os.mkdir makes it; the inputs are listed.
Startup ==
    /\ pc = "init"
    /\ hardsubbed' = TRUE
    /\ file_list' = DiscoverFiles(directory)
    /\ pc' = "probing"
    /\ idx' = 1
    /\ UNCHANGED <<directory, chosen_tracks, locals, error, exit_code, history, call>>

\* os.mkdir raises OSError: the error is printed and sys.exit() is called.
StartupFail ==
    /\ pc = "init"
    /\ ~hardsubbed
    /\ pc' = "exited"
    /\ error' = "OSError"
    /\ exit_code' = 0
    /\ UNCHANGED <<directory, hardsubbed, file_list, chosen_tracks, idx, locals, history, call>>

(* ------------------------------- Pass 1 --------------------------------- *)

\* key in chosen_tracks
AlreadyResolved_never(key, tracks) == FALSE
AlreadyResolved(key, tracks) == key \in DOMAIN tracks

\* The first for loop has run to its end.
Pass1Complete_early(i, files) == i > 1 \/ i > Len(files)
Pass1Complete(i, files) == i > Len(files)

InPass1 == pc = "probing" /\ idx <= Len(file_list)

\* if key in chosen_tracks: continue
SkipResolved ==
    /\ InPass1
    /\ AlreadyResolved(KeyOf(file_list[idx]), chosen_tracks)
    /\ idx' = idx + 1
    /\ UNCHANGED <<pc, directory, hardsubbed, file_list, chosen_tracks, locals,
                   error, exit_code, history, call>>

\* run(["ffprobe", ...]) and json.loads of its output.  A non-zero return
\* code is printed and the output is parsed all the same; results is not read
\* again once the streams are parsed, so returncode is kept only where the
\* parse ends the run.
Probe ==
    /\ InPass1
    /\ ~AlreadyResolved(KeyOf(file_list[idx]), chosen_tracks)
    /\ \E rc \in ReturnCodes, out \in ProbeStdouts :
        /\ probes' = Append(probes, file_list[idx])
        /\ IF out.kind = "garbage"
           THEN Raise("JSONDecodeError") /\ returncode' = rc /\ UNCHANGED stream_data
           ELSE IF out.kind = "nostreams"
           THEN Raise("KeyError") /\ returncode' = rc /\ UNCHANGED stream_data
           ELSE /\ stream_data' = out.streams
                /\ pc' = "audio"
                /\ UNCHANGED <<returncode, error, exit_code>>
    /\ UNCHANGED <<directory, hardsubbed, file_list, chosen_tracks, idx,
                   audio_stream, audio_channels, audio_codec, subtitle_stream,
                   prompts, encodes, call>>

\* One input() call: the series and kind it asks about and what was typed.
Prompt(kind, inp) == [key |-> KeyOf(file_list[idx]), kind |-> kind, answer |-> inp]

\* The inputs the operator may give where input() is reached.
InputsAt(streams) ==
    IF NeedsPrompt(streams) /\ ~PrintStreamInfoFails(streams) THEN Inputs ELSE {NoInput}

\* The audio block of the iteration.
ResolveAudio ==
    /\ pc = "audio"
    /\ \E inp \in InputsAt(audio_streams) :
        LET r == ResolveTrack(audio_streams, inp)
        IN  /\ prompts' = IF r.prompted THEN Append(prompts, Prompt("audio", inp)) ELSE prompts
            /\ audio_stream' = IF r.assigned THEN r.index ELSE audio_stream
            /\ IF r.err # ""
               THEN Raise(r.err) /\ UNCHANGED <<audio_channels, audio_codec>>
               ELSE /\ audio_channels' = r.channels
                    /\ audio_codec' = r.codec
                    /\ pc' = "subtitle"
                    /\ UNCHANGED <<error, exit_code>>
    /\ UNCHANGED <<directory, hardsubbed, file_list, chosen_tracks, idx,
                   returncode, stream_data, subtitle_stream, probes, encodes, call>>

Store_replace(tracks, key, selection) == [k \in {key} |-> selection]

\* chosen_tracks[key] = {...}
Store(tracks, key, selection) ==
    [k \in DOMAIN tracks \cup {key} |-> IF k = key THEN selection ELSE tracks[k]]

\* The subtitle block of the iteration and the assignment to chosen_tracks.
ResolveSubtitle ==
    /\ pc = "subtitle"
    /\ \E inp \in InputsAt(subtitle_streams) :
        LET r == ResolveTrack(subtitle_streams, inp)
        IN  /\ prompts' = IF r.prompted THEN Append(prompts, Prompt("subtitle", inp)) ELSE prompts
            /\ IF r.err # ""
               THEN /\ Raise(r.err)
                    /\ subtitle_stream' = IF r.assigned THEN r.index ELSE subtitle_stream
                    /\ UNCHANGED <<chosen_tracks, idx, returncode, stream_data,
                                   audio_stream, audio_channels, audio_codec>>
               ELSE /\ chosen_tracks' = Store(chosen_tracks, KeyOf(file_list[idx]),
                                              [audio_index |-> audio_stream,
                                               subtitle_index |-> r.index,
                                               audio_codec |-> audio_codec,
                                               audio_channels |-> audio_channels,
                                               subtitle_codec |-> r.codec])
                    /\ idx' = idx + 1
                    /\ pc' = "probing"
                    /\ UnboundNext
                    /\ UNCHANGED <<error, exit_code>>
    /\ UNCHANGED <<directory, hardsubbed, file_list, probes, encodes, call>>

\* The first loop ends and the second begins.
EndPass1 ==
    /\ pc = "probing"
    /\ Pass1Complete(idx, file_list)
    /\ pc' = "encoding"
    /\ idx' = 1
    /\ UNCHANGED <<directory, hardsubbed, file_list, chosen_tracks, locals,
                   error, exit_code, history, call>>

(* ------------------------------- Pass 2 --------------------------------- *)

\* How run(["ffmpeg", ...]) ends: return code 0, another return code, or
\* OSError when the process cannot be started.
EncodeResults == {"ok", "nonzero", "oserror"}

\* Whether the loop stops at a file whose encode ended this way.
EncodeAborts_oserror(result) == result = "oserror"
EncodeAborts(result) == FALSE

\* One iteration of the second loop.
Encode ==
    /\ pc = "encoding"
    /\ idx <= Len(file_list)
    /\ LET file == file_list[idx]
           key == KeyOf(file)
       IN  IF key \notin DOMAIN chosen_tracks
           THEN Raise("KeyError") /\ UNCHANGED <<encodes, idx>>
           ELSE \E result \in EncodeResults :
                   /\ encodes' = Append(encodes, [file |-> file,
                                                  args |-> EncodeArgs(file, chosen_tracks[key]),
                                                  result |-> result])
                   /\ IF EncodeAborts(result)
                      THEN Raise("OSError") /\ UNCHANGED idx
                      ELSE idx' = idx + 1 /\ UNCHANGED <<pc, error, exit_code>>
    /\ UNCHANGED <<directory, hardsubbed, file_list, chosen_tracks, locals,
                   probes, prompts, call>>

\* The second loop ends and main() returns.
EndPass2 ==
    /\ pc = "encoding"
    /\ idx > Len(file_list)
    /\ pc' = "done"
    /\ exit_code' = 0
    /\ UNCHANGED <<directory, hardsubbed, file_list, chosen_tracks, idx, locals,
                   error, history, call>>

Next ==
    \/ Startup
    \/ StartupFail
    \/ SkipResolved
    \/ Probe
    \/ ResolveAudio
    \/ ResolveSubtitle
    \/ EndPass1
    \/ Encode
    \/ EndPass2

Spec == Init /\ [][Next]_vars

(* -------------------- pure functions on their own ----------------------- *)

\* Arguments for get_audio_flags as its signature names them: a codec name,
\* an integer channel count as the prober reports it, a stream index.
CallCodecs == {"aac", "flac", "ac3", "none"}
CallChannels == {-1, 1, 2, 6}
CallIndices == -1..MaxStreams

AudioFlagCalls ==
    {[pc |-> "call", fn |-> "get_audio_flags", codec |-> c, channels |-> ch,
      index |-> i, out |-> <<>>] : c \in CallCodecs, ch \in CallChannels, i \in CallIndices}

\* Names get_key is applied to on its own: the directory's names, and names
\* that fit the pattern in two ways or just miss it.
N_two_titles == <<"[", "g", "]", " ", "T", " ", "-", " ", "1", " ", "-", " ", "2", " ", "a">>
N_two_groups == <<"[", "g", "]", " ", "[", "g", "]", " ", "T", " ", "-", " ", "1", " ", "a">>
N_no_space_after_digits == <<"[", "g", "]", " ", "T", " ", "-", " ", "1", ".", "m", "k", "v">>
N_many_digits == <<"[", "g", "]", " ", "T", " ", "-", " ", "1", "2", " ", "a">>
N_no_group == <<"T", " ", "-", " ", "1", " ", "a">>
N_no_title == <<"[", "g", "]", " ", " ", "-", " ", "1", " ", "a">>

KeyCallNames ==
    FileNames \cup {N_two_titles, N_two_groups, N_no_space_after_digits,
                    N_many_digits, N_no_group, N_no_title}

KeyCalls == {[pc |-> "call", fn |-> "get_key", file |-> f, out |-> <<>>] : f \in KeyCallNames}

\* Arguments for get_filter_flags: a subtitle codec name, a stream index and
\* the path of the source file.
CallSubtitleCodecs == {"dvd_subtitle", "hdmv_pgs_subtitle", "subrip", "ass", "none"}

FilterFlagCalls ==
    {[pc |-> "call", fn |-> "get_filter_flags", codec |-> c, index |-> i, file |-> f,
      out |-> <<>>] : c \in CallSubtitleCodecs, i \in CallIndices, f \in {F_T1_mkv, F_m_mkv}}

FlagInit ==
    /\ pc = "idle"
    /\ directory = {}
    /\ hardsubbed = FALSE
    /\ file_list = <<>>
    /\ chosen_tracks = EmptyDict
    /\ idx = 1
    /\ Unbound
    /\ error = ""
    /\ exit_code = -1
    /\ probes = <<>>
    /\ prompts = <<>>
    /\ encodes = <<>>
    /\ call \in AudioFlagCalls \cup KeyCalls \cup FilterFlagCalls

CallAudioFlags ==
    /\ call.pc = "call"
    /\ call.fn = "get_audio_flags"
    /\ call' = [call EXCEPT !.pc = "ret",
                            !.out = get_audio_flags(PyStr(call.codec), PyInt(call.channels), call.index)]
    /\ UNCHANGED <<pc, directory, hardsubbed, file_list, chosen_tracks, idx, locals,
                   error, exit_code, history>>

CallGetKey ==
    /\ call.pc = "call"
    /\ call.fn = "get_key"
    /\ call' = [call EXCEPT !.pc = "ret", !.out = get_key(call.file)]
    /\ UNCHANGED <<pc, directory, hardsubbed, file_list, chosen_tracks, idx, locals,
                   error, exit_code, history>>

CallFilterFlags ==
    /\ call.pc = "call"
    /\ call.fn = "get_filter_flags"
    /\ call' = [call EXCEPT !.pc = "ret",
                            !.out = get_filter_flags(call.codec, call.index, call.file)]
    /\ UNCHANGED <<pc, directory, hardsubbed, file_list, chosen_tracks, idx, locals,
                   error, exit_code, history>>

FlagNext ==
    \/ CallAudioFlags
    \/ CallGetKey
    \/ CallFilterFlags

FlagSpec == FlagInit /\ [][FlagNext]_vars

(* ------------------------------ properties ------------------------------ *)

SeriesKeys == {KeyOf(file_list[k]) : k \in 1..Len(file_list)}

FilesOf(key) == {k \in 1..Len(file_list) : KeyOf(file_list[k]) = key}

ProbesOf(key) == {k \in 1..Len(probes) : KeyOf(probes[k]) = key}

PromptsOf(key, kind) == {k \in 1..Len(prompts) : prompts[k].key = key /\ prompts[k].kind = kind}

HasTok(args, tok) == \E k \in 1..Len(args) : args[k] = tok

EncodedFiles == [k \in 1..Len(encodes) |-> encodes[k].file]

AllResolved == \A key \in SeriesKeys : key \in DOMAIN chosen_tracks

\* C1: Pass 1 fully precedes Pass 2.  The step that makes the first encoder
\* invocation starts from a registry holding a selection for every series key
\* of the file list, and no step that leaves an encoder invocation on record
\* adds a probe or a prompt.
C1_Pass1PrecedesPass2 ==
    [][/\ (Len(encodes) = 0 /\ Len(encodes') > 0) => AllResolved
       /\ Len(encodes') > 0 => (probes' = probes /\ prompts' = prompts)]_vars

\* An encode has happened in a run with two series, one of them prompted for.
C1_Witness ==
    /\ Len(encodes) > 0
    /\ Cardinality(SeriesKeys) >= 2
    /\ Len(probes) >= 2
    /\ Len(prompts) > 0

\* C2: for every series key the run makes at most one probe, at most one
\* audio prompt and at most one subtitle prompt, however many files share it.
C2_OneProbeOnePromptSetPerSeries ==
    \A key \in SeriesKeys :
        /\ Cardinality(ProbesOf(key)) <= 1
        /\ Cardinality(PromptsOf(key, "audio")) <= 1
        /\ Cardinality(PromptsOf(key, "subtitle")) <= 1

\* Pass 1 is over for two files of one series that was probed and prompted for.
C2_Witness ==
    /\ pc = "encoding"
    /\ \E key \in SeriesKeys :
        /\ Cardinality(FilesOf(key)) >= 2
        /\ Cardinality(ProbesOf(key)) = 1
        /\ Cardinality(PromptsOf(key, "audio")) = 1

CopyAudioFlags(index) ==
    <<Tok("-c:a"), Tok("copy"), Tok("-map"), Fmt("0:a:{}", NoFile, index)>>

IsSubSeqAt(args, part, k) ==
    /\ k + Len(part) - 1 <= Len(args)
    /\ SubSeq(args, k, k + Len(part) - 1) = part

Carries(args, part) == \E k \in 1..Len(args) : IsSubSeqAt(args, part, k)

\* C3: every encoder invocation for a file of a series resolved to an aac
\* track with 2 channels carries the stream-copy audio flags for the chosen
\* stream and no bitrate flag.
C3_StereoAacIsCopied ==
    \A k \in 1..Len(encodes) :
        LET sel == chosen_tracks[KeyOf(encodes[k].file)]
        IN  (sel.audio_codec = "aac" /\ sel.audio_channels = 2) =>
                /\ Carries(encodes[k].args, CopyAudioFlags(sel.audio_index))
                /\ ~HasTok(encodes[k].args, Tok("-b:a"))

\* C4: every encoder invocation for a file of a series without audio (index
\* -1, codec "none") has no audio codec flag and no audio stream mapping.
C4_NoAudioNoAudioFlags ==
    \A k \in 1..Len(encodes) :
        LET sel == chosen_tracks[KeyOf(encodes[k].file)]
        IN  (sel.audio_index = -1 /\ sel.audio_codec = "none") =>
                /\ ~HasTok(encodes[k].args, Tok("-c:a"))
                /\ \A j \in 1..Len(encodes[k].args) : encodes[k].args[j].s # "0:a:{}"

ReencodeAudioFlags(index) ==
    <<Tok("-c:a"), Tok("aac"), Tok("-b:a"), Tok("192k"), Tok("-ac"), Tok("2"),
      Tok("-map"), Fmt("0:a:{}", NoFile, index)>>

\* C5: get_audio_flags(codec, channels, index) gives the stream-copy flags
\* for codec "aac" with the integer channel count 2, the AAC re-encode flags
\* for any other codec but "none", and no flags for "none".
C5_AudioFlagsThreeWay ==
    (call.pc = "ret" /\ call.fn = "get_audio_flags") =>
        call.out = IF call.codec = "aac" /\ call.channels = 2
                   THEN CopyAudioFlags(call.index)
                   ELSE IF call.codec # "none"
                   THEN ReencodeAudioFlags(call.index)
                   ELSE <<>>

\* C6 as stated: every stored selection has audio_index >= 0 exactly when
\* audio_codec is not "none", and likewise for the subtitle.
C6_IndexIffCodec ==
    \A key \in DOMAIN chosen_tracks :
        LET sel == chosen_tracks[key]
        IN  /\ (sel.audio_index >= 0) <=> (sel.audio_codec # "none")
            /\ (sel.subtitle_index >= 0) <=> (sel.subtitle_codec # "none")

\* The last answer given at a prompt of this kind for this series.
AnswerOf(key, kind) == prompts[CHOOSE k \in PromptsOf(key, kind) : TRUE].answer

NegativeAnswer(key, kind) ==
    /\ PromptsOf(key, kind) # {}
    /\ AnswerOf(key, kind).is_int
    /\ AnswerOf(key, kind).v < 0

\* C6 as amended: in every stored selection codec "none" goes with index -1
\* and an index >= 0 with a codec other than "none"; an index below 0 with a
\* codec other than "none" is stored exactly for a negative operator integer.
C6_IndexCodecAmended ==
    \A key \in DOMAIN chosen_tracks :
        LET sel == chosen_tracks[key]
        IN  /\ sel.audio_codec = "none" => sel.audio_index = -1
            /\ sel.audio_index >= 0 => sel.audio_codec # "none"
            /\ (sel.audio_index < 0 /\ sel.audio_codec # "none") <=> NegativeAnswer(key, "audio")
            /\ sel.subtitle_codec = "none" => sel.subtitle_index = -1
            /\ sel.subtitle_index >= 0 => sel.subtitle_codec # "none"
            /\ (sel.subtitle_index < 0 /\ sel.subtitle_codec # "none")
                   <=> NegativeAnswer(key, "subtitle")

\* The registry holds a selection without audio, one with a chosen audio
\* track, and one made from a negative operator integer.
C6_Witness ==
    /\ \E key \in DOMAIN chosen_tracks :
        chosen_tracks[key].audio_index = -1 /\ chosen_tracks[key].audio_codec = "none"
    /\ \E key \in DOMAIN chosen_tracks :
        chosen_tracks[key].audio_index < 0 /\ chosen_tracks[key].audio_codec # "none"

PromptsIn(log, key, kind) == {k \in 1..Len(log) : log[k].key = key /\ log[k].kind = kind}

\* The three-way rule for one kind: what a stored index, codec and channel
\* count must be for the candidates cands, given the prompts on record.
ThreeWayRule(cands, index, codec, channels, with_channels, log, key, kind) ==
    /\ Len(cands) = 0 =>
        /\ index = -1 /\ codec = "none"
        /\ PromptsIn(log, key, kind) = {}
    /\ Len(cands) = 1 =>
        /\ index = 0 /\ codec = cands[1].codec_name
        /\ with_channels => channels = cands[1].channels
        /\ PromptsIn(log, key, kind) = {}
    /\ Len(cands) >= 2 =>
        /\ Cardinality(PromptsIn(log, key, kind)) = 1
        /\ \A k \in PromptsIn(log, key, kind) :
            LET v == log[k].answer.v
                at == IF v >= 0 THEN v + 1 ELSE Len(cands) + v + 1
            IN  /\ log[k].answer.is_int
                /\ index = v
                /\ at \in 1..Len(cands)
                /\ codec = cands[at].codec_name
                /\ with_channels => channels = cands[at].channels

\* C7: a step that stores a selection stores, for audio and for subtitles
\* independently, index -1 and codec "none" without a prompt when there is no
\* candidate, index 0 and the candidate's codec without a prompt when there
\* is one, and after exactly one prompt of that kind the operator's integer
\* and the codec (for audio also the channel count) of the candidate at that
\* integer as a list position in probe order when there are two or more.
C7_ThreeWayResolution ==
    [][(pc = "subtitle" /\ pc' = "probing") =>
        LET key == KeyOf(file_list[idx])
            sel == chosen_tracks'[key]
        IN  /\ key \in DOMAIN chosen_tracks'
            /\ ThreeWayRule(Candidates(stream_data, "audio"), sel.audio_index, sel.audio_codec,
                            sel.audio_channels, TRUE, prompts', key, "audio")
            /\ ThreeWayRule(Candidates(stream_data, "subtitle"), sel.subtitle_index,
                            sel.subtitle_codec, 0, FALSE, prompts', key, "subtitle")]_vars

\* A selection is stored whose audio track is the second of several
\* candidates, chosen at a prompt, and whose subtitle is none.
C7_Witness ==
    \E key \in DOMAIN chosen_tracks :
        /\ PromptsOf(key, "audio") # {}
        /\ chosen_tracks[key].audio_index = 1
        /\ chosen_tracks[key].subtitle_index = -1
        /\ PromptsOf(key, "subtitle") = {}

\* C8: a probe that exits non-zero does not end the run.
C8_ProbeFailureDoesNotAbort ==
    returncode # 0 => pc # "crashed"

LastPrompt == prompts[Len(prompts)]

\* C9: once Pass 2 has started the run is in Pass 2 or done, the encoder has
\* been invoked exactly once for each file before the loop position, in list
\* order, whatever the earlier results were, and a finished run has invoked it
\* exactly once for every file.
C9_EachFileEncodedOnce ==
    /\ Len(encodes) > 0 => pc \in {"encoding", "done"}
    /\ pc = "encoding" => EncodedFiles = SubSeq(file_list, 1, idx - 1)
    /\ pc = "done" => EncodedFiles = file_list

\* The run is done after a failed encode of the first of two files, one of
\* the two failing to launch.
C9_Witness ==
    /\ pc = "done"
    /\ Len(encodes) = 2
    /\ encodes[1].result # "ok"
    /\ \E k \in 1..2 : encodes[k].result = "oserror"

\* C10: an operator integer out of range for the candidate list does not end
\* the run during Pass 1.
C10_OutOfRangeIndexIsStored ==
    ~(/\ pc = "crashed"
      /\ Len(prompts) > 0
      /\ LastPrompt.answer.is_int
      /\ ~PyIndexOK(Candidates(stream_data, LastPrompt.kind), LastPrompt.answer.v)
      /\ error = "IndexError")

\* C11: a run ended by a failure to create the output directory has a
\* non-zero exit status and has made no probe, prompt or encoder invocation.
C11_MkdirFailureExitsNonZero ==
    (pc = "exited" /\ error = "OSError") =>
        /\ exit_code > 0
        /\ probes = <<>> /\ prompts = <<>> /\ encodes = <<>>

\* C12: with the output directory available the run does not end short of
\* Done, and a finished run has invoked the encoder once for every file.
C12_OnlyMkdirFailureHalts ==
    /\ (hardsubbed /\ pc # "exited") => pc # "crashed"
    /\ pc = "done" => EncodedFiles = file_list

\* The ways a name reads as "[group] Title - NN <anything>": the ends i, j, k
\* of a non-empty group, a non-empty title and a non-empty run of digits.
Forms(f) ==
    {d \in (2..Len(f)) \X (2..Len(f)) \X (2..Len(f)) :
        /\ d[1] + 3 <= d[2] /\ d[2] + 4 <= d[3] /\ d[3] + 1 <= Len(f)
        /\ \A r \in (d[2] + 4)..d[3] : f[r] \in {"1", "2", "4"}
        /\ f = <<"[">> \o SubSeq(f, 2, d[1]) \o <<"]", " ">>
                 \o SubSeq(f, d[1] + 3, d[2]) \o <<" ", "-", " ">>
                 \o SubSeq(f, d[2] + 4, d[3]) \o <<" ">>
                 \o SubSeq(f, d[3] + 2, Len(f))}

TitleOf(f, d) == SubSeq(f, d[1] + 3, d[2])

\* C13: get_key returns the name unchanged when the name does not read as
\* "[group] Title - NN <anything>", and otherwise the Title of such a
\* reading: the one with the longest group and, for it, the longest title
\* (the only one, when the name reads so in one way).
C13_KeyIsTitleOrName ==
    (call.pc = "ret" /\ call.fn = "get_key") =>
        IF Forms(call.file) = {} THEN call.out = call.file
        ELSE \E d \in Forms(call.file) :
                /\ call.out = TitleOf(call.file, d)
                /\ \A e \in Forms(call.file) :
                       e[1] < d[1] \/ (e[1] = d[1] /\ e[2] <= d[2])

\* get_key has returned for a name that fits the pattern with two titles.
C13_Witness ==
    /\ call.pc = "ret" /\ call.fn = "get_key"
    /\ \E d, e \in Forms(call.file) : TitleOf(call.file, d) # TitleOf(call.file, e)
    /\ call.out # call.file

OverlayGraph(index) ==
    [s |-> "[0:v][0:s:{}]overlay[burned];", f |-> <<>>, n |-> index,
     tail |-> "[burned]scale=-16:min(720\\,ih)[v]"]

TextGraph(path, index) ==
    [s |-> "[0:v]subtitles='{}':si={}[burned];", f |-> path, n |-> index,
     tail |-> "[burned]scale=-16:min(720\\,ih)[v]"]

NullGraph ==
    [s |-> "[0:v]null[burned];", f |-> <<>>, n |-> 0,
     tail |-> "[burned]scale=-16:min(720\\,ih)[v]"]

\* C14: get_filter_flags(codec, index, subfile) returns, for every input,
\* -filter_complex with a graph and -map [v]; the graph is an overlay of
\* subtitle stream index for a picture-based codec, a null passthrough for
\* codec "none" and a text-subtitle filter naming subfile and index for any
\* other codec, each followed by the scale-to-at-most-720 stage.
C14_FilterFlagsThreeWay ==
    (call.pc = "ret" /\ call.fn = "get_filter_flags") =>
        /\ Len(call.out) = 4
        /\ call.out[1] = Tok("-filter_complex")
        /\ call.out[2] = IF call.codec \in {"dvd_subtitle", "hdmv_pgs_subtitle"}
                         THEN OverlayGraph(call.index)
                         ELSE IF call.codec = "none" THEN NullGraph
                         ELSE TextGraph(call.file, call.index)
        /\ call.out[3] = Tok("-map")
        /\ call.out[4] = Tok("[v]")

\* get_filter_flags has returned for a picture-based codec.
C14_Witness ==
    /\ call.pc = "ret" /\ call.fn = "get_filter_flags"
    /\ call.codec = "hdmv_pgs_subtitle"
    /\ call.out[2].s = "[0:v][0:s:{}]overlay[burned];"

\* A candidate stream without a title tag or without a language tag.
LacksOptionalTag(st) == ~({"title", "language"} \subseteq st.tags)

\* The candidates of one kind need a prompt and one of them lacks a tag.
PromptWithMissingTag(kind) ==
    /\ NeedsPrompt(Candidates(stream_data, kind))
    /\ \E k \in 1..Len(Candidates(stream_data, kind)) :
           LacksOptionalTag(Candidates(stream_data, kind)[k])

\* C15: when a series needs a prompt and a candidate lacks the title or the
\* language tag, the candidates are still listed and resolution goes on: the
\* run is never stopped by a KeyError raised while listing such candidates.
C15_MissingTagsNeverStop ==
    ~(/\ pc = "crashed"
      /\ error = "KeyError"
      /\ \E kind \in {"audio", "subtitle"} :
            PromptWithMissingTag(kind) /\ PrintStreamInfoFails(Candidates(stream_data, kind)))

\* Every entry of the registry is kept as it is by the step.
EntriesKept ==
    \A key \in DOMAIN chosen_tracks :
        key \in DOMAIN chosen_tracks' /\ chosen_tracks'[key] = chosen_tracks[key]

\* C16: the registry is write-once and frozen after Pass 1: no step changes
\* or removes an entry that is already stored, and no step taken once the
\* encoding pass has begun adds, removes or changes any entry.
C16_RegistryWriteOnce ==
    [][/\ EntriesKept
       /\ pc \in {"encoding", "done"} => chosen_tracks' = chosen_tracks]_vars

\* Two series are stored and the encoding pass has encoded a file.
C16_Witness ==
    /\ pc \in {"encoding", "done"}
    /\ Cardinality(DOMAIN chosen_tracks) = 2
    /\ encodes # <<>>

\* The audio flags and the filter graph of the k-th encoder invocation: the
\* arguments between the sixteen video flags and the four filter flags, and
\* the argument after -filter_complex.
AudioFlagsOf(k) == SubSeq(encodes[k].args, 24, Len(encodes[k].args) - 5)

GraphOf(k) == encodes[k].args[Len(encodes[k].args) - 3]

TextSubtitleTemplate == "[0:v]subtitles='{}':si={}[burned];"

\* C17: the encoder invocations of files sharing a series key carry the same
\* audio flags, the same kind of subtitle filter and the same subtitle stream
\* index, and a text-subtitle filter names the file being encoded.
C17_SameSelectionPerSeries ==
    /\ \A i, j \in 1..Len(encodes) :
          KeyOf(encodes[i].file) = KeyOf(encodes[j].file) =>
              /\ AudioFlagsOf(i) = AudioFlagsOf(j)
              /\ GraphOf(i).s = GraphOf(j).s
              /\ GraphOf(i).n = GraphOf(j).n
    /\ \A i \in 1..Len(encodes) :
          /\ encodes[i].args[Len(encodes[i].args) - 4] = Tok("-filter_complex")
          /\ GraphOf(i).s = TextSubtitleTemplate => GraphOf(i).f = encodes[i].file

\* Two files of one series were encoded with a text-subtitle filter.
C17_Witness ==
    \E i, j \in 1..Len(encodes) :
        /\ encodes[i].file # encodes[j].file
        /\ KeyOf(encodes[i].file) = KeyOf(encodes[j].file)
        /\ GraphOf(i).s = TextSubtitleTemplate
        /\ GraphOf(j).f = encodes[j].file
        /\ AudioFlagsOf(i) # <<>>

\* The output path handed to the k-th encoder invocation: its last argument.
OutputOf(k) == encodes[k].args[Len(encodes[k].args)]

\* C18: within one run no two encoder invocations are given the same output
\* path: invocations for distinct input files write distinct outputs.
C18_DistinctOutputs ==
    \A i, j \in 1..Len(encodes) :
        encodes[i].file # encodes[j].file => OutputOf(i) # OutputOf(j)

\* C19: if the first pass ends abnormally while resolving a series, by
\* unparsable probe output, a non-integer operator input or an index error,
\* then no encoder invocation happens in the run, not even for a series that
\* was already resolved: a run that has stopped on an exception has encoded
\* nothing.
C19_AbnormalPass1EncodesNothing ==
    pc = "crashed" => encodes = <<>>

\* The run stopped on an exception after a series had been stored.
C19_Witness ==
    /\ pc = "crashed"
    /\ error \in {"JSONDecodeError", "ValueError", "IndexError"}
    /\ DOMAIN chosen_tracks # {}
    /\ probes # <<>>

====
